---- MODULE Spec2Model ----
(***************************************************************************)
(* Model of the Nimiq validator activator (cmd/main.go, rpc client,        *)
(* prometheus gauges).  One lifecycle worker (func main) walks through the *)
(* consensus gate, the start-up evaluation, the balance sub-loop           *)
(* (periodicUpdates) and the main poll loop.  Every node call, key-file    *)
(* read, sleep and block of gauge writes is one step of the worker; `pc`   *)
(* is the worker's position in the code.  The answers of the node, of the  *)
(* key files and of the faucet are inputs, drawn when the call is made.    *)
(***************************************************************************)
EXTENDS Integers, Sequences, FiniteSets, TLC

VARIABLES
    pc,                 \* position of the lifecycle worker in main.go
    ctx,                \* the evaluation under way: "boot", "startup", "subloop", "main"
    network,            \* package variable `network` (NIMIQ_NETWORK)
    node,               \* the node the client talks to: answers free, or a fixed state
    attempt,            \* checkConsensus: loop variable attempt
    successfulChecks,   \* checkConsensus: successfulChecks
    consensus,          \* result of checkConsensus: "pending", "true", "false"
    validatorAddress,   \* main: validatorAddress ("" until GetAddress answers)
    metrics,            \* the prometheus registry: gauge name -> value
    details,            \* checkAndHandleValidatorStatus: details
    currentBlockNumber, \* checkAndHandleValidatorStatus: currentBlockNumber
    balance,            \* checkSufficientBalance: balance fetched in this evaluation
    sufficient,         \* periodicUpdates: sufficient
    active,             \* periodicUpdates: isActive
    healthy,            \* value returned by checkAndHandleValidatorStatus in this evaluation
    trace,              \* calls made in the evaluation under way, in order
    step,               \* activateValidator / reActivateValidator: the step reached
    snap,               \* fixed node state: registry and calls at the end of the previous tick
    second,             \* fixed node state: the tick under way follows a completed tick
    server,             \* the metrics goroutine: "starting", "listening", "fatal"
    scraped             \* ValidatorJailedGauge as the last /metrics response showed it

vars == <<pc, ctx, network, node, attempt, successfulChecks, consensus,
          validatorAddress, metrics, details, currentBlockNumber, balance,
          sufficient, active, healthy, trace, step, snap, second, server, scraped>>

----------------------------------------------------------------------------
(* Program constants *)

maxAttempts == 3
blocksForReactivation == 8000
\* checkSufficientBalance: balance / 100000.0 >= 100000.0
LunaPerNim == 100000
ThresholdNim == 100000

(* Bounds of the model *)
MaxCounter == 3

\* A nil pointer (*int, *ValidatorDetails) and a gauge child that was never
\* created are both written -1; the values the node reports are >= 0.
Nil == -1
Unset == -1

OwnAddress == "NQ07 OWN"
OtherAddress == "NQ99 OTHER"

----------------------------------------------------------------------------
(* The node's answers *)

\* rpc.ValidatorDetails, tagged with the outcome of GetValidatorByAddress:
\* "fail" (the request did not get through: Client.query lines 489-498),
\* "err" (the node answered with an RPC error: the address is not a
\* validator, lines 500-502), "null" (a result without a record: the returned
\* pointer is nil) or "rec".  "fail" and "err" both come back as err != nil.
Details(k, a, b, n, i, r, j) ==
    [kind |-> k, address |-> a, balance |-> b, numStakers |-> n,
     inactivityFlag |-> i, retired |-> r, jailedFrom |-> j]

NoDetails == Details("none", "", 0, 0, Nil, FALSE, Nil)
ErrDetails == Details("err", "", 0, 0, Nil, FALSE, Nil)
FailDetails == Details("fail", "", 0, 0, Nil, FALSE, Nil)
NullDetails == Details("null", "", 0, 0, Nil, FALSE, Nil)

ValidatorRecords ==
    { Details("rec", OwnAddress, 1000, 2, i, r, j) :
        i \in {Nil, 3}, r \in BOOLEAN, j \in {Nil, 100} }
    \cup { Details("rec", OtherAddress, 0, 0, Nil, FALSE, Nil) }

ValidatorResponses == {FailDetails, ErrDetails, NullDetails} \cup ValidatorRecords

\* An int64 balance in Luna is written <<whole NIM, remaining Luna>>, that is
\* whole * 100000 + rest: 10^10 Luna does not fit TLC's 32-bit integers.
Luna(whole, rest) == <<whole, rest>>
NoBalance == Luna(Nil, 0)
ErrBalance == Luna(Nil, 1)
BalanceValues == {Luna(40000, 0), Luna(99999, LunaPerNim - 1), Luna(100000, 0)}
BalanceResponses == {ErrBalance} \cup BalanceValues

BlockErr == -2
BlockValues == {5000, 8099, 8100}
BlockResponses == {BlockErr} \cup BlockValues

EpochErr == -2
EpochResponses == {EpochErr, 12}


\* A variant of ActivateSteps with a slip: the node is called before the
\* account key is read.
ActivateStepsImportEarly ==
    << "getPrivateKey(signing_key)", "getVoteKey(vote_key)", "ImportRawKey",
       "getPrivateKey(address)", "UnlockAccount", "SendNewValidatorTransaction",
       "SendRawTransaction" >>

\* The steps of activateValidator and of reActivateValidator, in code order.
ActivateSteps ==
    << "getPrivateKey(signing_key)", "getVoteKey(vote_key)", "getPrivateKey(address)",
       "ImportRawKey", "UnlockAccount", "SendNewValidatorTransaction",
       "SendRawTransaction" >>

\* A variant of ReactivateSteps with a slip: the voting secret is read as in
\* activateValidator.
ReactivateStepsWithVoteKey ==
    << "getPrivateKey(signing_key)", "getVoteKey(vote_key)", "getPrivateKey(address)",
       "ImportRawKey", "UnlockAccount", "SendReactivateValidatorTransaction" >>

ReactivateSteps ==
    << "getPrivateKey(signing_key)", "getPrivateKey(address)", "ImportRawKey",
       "UnlockAccount", "SendReactivateValidatorTransaction" >>

StepNames == {ActivateSteps[i] : i \in 1..Len(ActivateSteps)}
             \cup {ReactivateSteps[i] : i \in 1..Len(ReactivateSteps)}

\* A node whose answers are free at every call, and the nodes whose state
\* (and the key files and submissions with it) stays the same for the run.
FreeNode ==
    [stable |-> FALSE, validator |-> NoDetails, block |-> BlockErr,
     balance |-> NoBalance, epoch |-> EpochErr, failAt |-> "none"]

StableNodes ==
    { [stable |-> TRUE, validator |-> v, block |-> b, balance |-> bal,
       epoch |-> 12, failAt |-> f] :
        v \in ValidatorResponses, b \in BlockResponses,
        bal \in {Luna(40000, 0), Luna(100000, 0)},
        f \in {"none"} \cup StepNames }

ConsensusAnswers == IF node.stable THEN {"true"} ELSE {"err", "true", "false"}
AddressAnswers == IF node.stable THEN {TRUE} ELSE BOOLEAN
ValidatorAnswers == IF node.stable THEN {node.validator} ELSE ValidatorResponses
BalanceAnswers == IF node.stable THEN {node.balance} ELSE BalanceResponses
BlockAnswers == IF node.stable THEN {node.block} ELSE BlockResponses
EpochAnswers == IF node.stable THEN {node.epoch} ELSE EpochResponses
StepAnswers(s) == IF node.stable THEN {s # node.failAt} ELSE BOOLEAN
FaucetAnswers == BOOLEAN

----------------------------------------------------------------------------
(* The prometheus registry *)

InitMetrics ==
    [NimiqEpochNumberGauge |-> 0,
     ValidatorBalanceGauge |-> NoBalance,
     NimiqTotalStakeGauge |-> Unset,
     ValidatorNumStakersGauge |-> Unset,
     ValidatorInactivityFlagGauge |-> Unset,
     ValidatorRetiredGauge |-> Unset,
     ValidatorJailedGauge |-> Unset,
     ValidatorJailedFromGauge |-> Unset,
     ValidatorActivatedGauge |-> Unset,
     ValidatorActivatedCounterGauge |-> Unset,
     ValidatorReActivatedCounterGauge |-> Unset]

\* Gauge.Set and Gauge.Inc; WithLabelValues creates a missing child at 0.
Set(m, g, v) == [m EXCEPT ![g] = v]
Inc(m, g) == [m EXCEPT ![g] = IF @ = Unset THEN 1 ELSE @ + 1]

\* Variants of updateValidatorMetrics with a slip: the staker count added to
\* the gauge instead of set, and the activated gauge left alone.
updateValidatorMetricsAdd(m, d) ==
    [m EXCEPT !.NimiqTotalStakeGauge = d.balance,
              !.ValidatorNumStakersGauge = (IF @ = Unset THEN 0 ELSE @) + d.numStakers,
              !.ValidatorInactivityFlagGauge =
                  IF d.inactivityFlag # Nil THEN d.inactivityFlag ELSE 0,
              !.ValidatorRetiredGauge = IF d.retired THEN 1 ELSE 0,
              !.ValidatorJailedFromGauge = IF d.jailedFrom # Nil THEN d.jailedFrom ELSE 0,
              !.ValidatorActivatedGauge = 1]

updateValidatorMetricsNoActivated(m, d) ==
    [m EXCEPT !.NimiqTotalStakeGauge = d.balance,
              !.ValidatorNumStakersGauge = d.numStakers,
              !.ValidatorInactivityFlagGauge =
                  IF d.inactivityFlag # Nil THEN d.inactivityFlag ELSE 0,
              !.ValidatorRetiredGauge = IF d.retired THEN 1 ELSE 0,
              !.ValidatorJailedFromGauge = IF d.jailedFrom # Nil THEN d.jailedFrom ELSE 0]

updateValidatorMetrics(m, d) ==
    LET inactivityFlag == IF d.inactivityFlag # Nil THEN d.inactivityFlag ELSE 0
        retired == IF d.retired THEN 1 ELSE 0
        jailedFrom == IF d.jailedFrom # Nil THEN d.jailedFrom ELSE 0
    IN [m EXCEPT !.NimiqTotalStakeGauge = d.balance,
                 !.ValidatorNumStakersGauge = d.numStakers,
                 !.ValidatorInactivityFlagGauge = inactivityFlag,
                 !.ValidatorRetiredGauge = retired,
                 !.ValidatorJailedFromGauge = jailedFrom,
                 !.ValidatorActivatedGauge = 1]

\* checkSufficientBalance: balanceInNim = float64(balance) / 100000.0 is
\* whole + rest / 100000 with 0 <= rest < 100000, so it reaches the whole
\* number 100000.0 exactly when its whole part does.
balanceInNim(b) == b[1]

\* A variant of SufficientBalance with a slip: the threshold itself is not
\* enough.
SufficientBalanceStrict(b) == b # ErrBalance /\ balanceInNim(b) > ThresholdNim

\* The second value checkSufficientBalance returns, as an amount in Luna:
\* 0 after a failed fetch (line 298), the balance fetched otherwise.
currentBalance(b) == IF b = ErrBalance THEN Luna(0, 0) ELSE b

SufficientBalance(b) == b # ErrBalance /\ balanceInNim(b) >= ThresholdNim

----------------------------------------------------------------------------
(* The calls of the evaluation under way *)

Call(op, res) == [op |-> op, res |-> res]
OkErr(ok) == IF ok THEN "ok" ELSE "err"

Ops(t) == [i \in 1..Len(t) |-> t[i].op]
Count(t, op) == Cardinality({i \in 1..Len(t) : t[i].op = op})
Called(t, op) == Count(t, op) > 0

\* The counters the tickers stop at (the bound of the model).
CounterOf(m, g) == IF m[g] = Unset THEN 0 ELSE m[g]
BelowMaxCounter ==
    /\ CounterOf(metrics, "ValidatorActivatedCounterGauge") < MaxCounter
    /\ CounterOf(metrics, "ValidatorReActivatedCounterGauge") < MaxCounter

----------------------------------------------------------------------------
(* The branches of the code *)

\* GetValidatorByAddress, lines 606-608: err != nil for every failure.
QueryFailed(d) == d.kind \in {"fail", "err"}

\* checkAndHandleValidatorStatus, lines 352-360: what follows the validator query.
StatusBranch(d) ==
    IF QueryFailed(d) THEN "activate"
    ELSE IF d.kind = "null" THEN "panic"
    ELSE "updateMetrics"

\* Variants of RetiredBranch with a slip: the jail marker looked at before the
\* retired flag, and a jail marker taken as a reason to reactivate.
RetiredBranchJailFirst(d) ==
    IF d.retired /\ d.jailedFrom = Nil THEN "reactivate" ELSE "blockNumber"

RetiredBranchOrJailed(d) ==
    IF d.retired \/ d.jailedFrom # Nil THEN "reactivate" ELSE "blockNumber"

\* checkAndHandleValidatorStatus, lines 363-369: what follows updateValidatorMetrics.
RetiredBranch(d) == IF d.retired THEN "reactivate" ELSE "blockNumber"

\* checkAndHandleValidatorStatus, lines 375-386: the jail window.
JailBranch(d, block) ==
    IF d.jailedFrom # Nil
    THEN IF block - d.jailedFrom < blocksForReactivation
         THEN "jailedWithin"
         ELSE "jailedExpired"
    ELSE "goodStanding"

\* A variant of AfterStatus with a slip: an iteration whose evaluation was
\* not healthy goes on to ask the faucet.
AfterStatusFunds(c, result) ==
    IF c = "startup" THEN "mainTicker"
    ELSE IF c = "subloop" THEN (IF result THEN "mainTicker" ELSE "fundAddress")
    ELSE "tickBalance"

\* Where checkAndHandleValidatorStatus returns to: main line 429 drops the
\* result, periodicUpdates returns on true (line 331), the main loop goes on
\* to checkSufficientBalance (line 446).
AfterStatus(c, result) ==
    IF c = "startup" THEN "mainTicker"
    ELSE IF c = "subloop" THEN (IF result THEN "mainTicker" ELSE "subTicker")
    ELSE "tickBalance"

\* checkActive, lines 306-318.
isActive(d, address) == d.kind = "rec" /\ d.address = address

\* Variants of SubLoopBranch with a slip: the network is not looked at; the
\* result of checkActive is not looked at; an iteration that cannot ask the
\* faucet leaves the sub-loop.
SubLoopBranchAnyNetwork(suff, isAct, net) ==
    IF suff \/ isAct THEN "checkStatus" ELSE "fundAddress"

SubLoopBranchBalanceOnly(suff, isAct, net) ==
    IF suff THEN "checkStatus"
    ELSE IF net = "testnet" THEN "fundAddress"
    ELSE "subTicker"

SubLoopBranchGivesUp(suff, isAct, net) ==
    IF suff \/ isAct THEN "checkStatus"
    ELSE IF net = "testnet" THEN "fundAddress"
    ELSE "mainTicker"

\* periodicUpdates, lines 329-345: what follows the two checks of an iteration.
SubLoopBranch(suff, isAct, net) ==
    IF suff \/ isAct THEN "checkStatus"
    ELSE IF net = "testnet" THEN "fundAddress"
    ELSE "subTicker"

\* A variant of StartupBranch with a slip: a funded address is sent to the
\* sub-loop to wait for its first iteration.
StartupBranchDeferred(suff) == "subTicker"

\* main, lines 424-434: what follows the start-up balance check.
StartupBranch(suff) == IF suff THEN "checkStatus" ELSE "subTicker"

----------------------------------------------------------------------------
(* Initial state: the process has started, nothing was called yet *)

Networks == {"testnet", "mainnet"}

NoSnap == [metrics |-> InitMetrics, trace |-> <<>>]

\* No /metrics response was written yet.
NoScrape == -2

Init ==
    /\ pc = "checkConsensus"
    /\ ctx = "boot"
    /\ network \in Networks
    /\ node \in {FreeNode} \cup StableNodes
    /\ attempt = 1
    /\ successfulChecks = 0
    /\ consensus = "pending"
    /\ validatorAddress = ""
    /\ metrics = InitMetrics
    /\ details = NoDetails
    /\ currentBlockNumber = Nil
    /\ balance = NoBalance
    /\ sufficient = FALSE
    /\ active = FALSE
    /\ healthy = "none"
    /\ trace = <<>>
    /\ step = 0
    /\ snap = NoSnap
    /\ second = FALSE
    /\ server = "starting"
    /\ scraped = NoScrape

\* A new evaluation starts: the locals of the previous one are gone.
NewEvaluation(kind, first) ==
    /\ ctx' = kind
    /\ details' = NoDetails
    /\ currentBlockNumber' = Nil
    /\ balance' = NoBalance
    /\ sufficient' = FALSE
    /\ active' = FALSE
    /\ healthy' = "none"
    /\ step' = 0
    /\ trace' = first

\* checkAndHandleValidatorStatus returns `result`.
Return(result) ==
    /\ healthy' = (IF result THEN "true" ELSE "false")
    /\ pc' = AfterStatus(ctx, result)

----------------------------------------------------------------------------
(* Consensus gate: checkConsensus, lines 63-98 *)

CheckConsensus ==
    /\ pc = "checkConsensus"
    /\ \E r \in ConsensusAnswers :
        /\ trace' = Append(trace, Call("IsConsensusEstablished", r))
        /\ IF r = "err"
           THEN /\ pc' = "sleep60"
                /\ UNCHANGED <<successfulChecks, consensus>>
           ELSE IF r = "false"
           THEN /\ pc' = "exit"
                /\ consensus' = "false"
                /\ UNCHANGED successfulChecks
           ELSE /\ successfulChecks' = successfulChecks + 1
                /\ IF attempt < maxAttempts
                   THEN pc' = "sleep5" /\ UNCHANGED consensus
                   ELSE IF successfulChecks' = maxAttempts
                        THEN pc' = "startEpoch" /\ consensus' = "true"
                        ELSE pc' = "exit" /\ consensus' = "false"
    /\ UNCHANGED <<ctx, network, node, attempt, validatorAddress, metrics, details,
                   currentBlockNumber, balance, sufficient, active, healthy, step, snap, second, server, scraped>>

\* A variant of Sleep60 with a slip: the caller goes on after the failed gate.
Sleep60Proceeds ==
    /\ pc = "sleep60"
    /\ trace' = Append(trace, Call("Sleep60", "ok"))
    /\ consensus' = "false"
    /\ pc' = "startEpoch"
    /\ UNCHANGED <<ctx, network, node, attempt, successfulChecks, validatorAddress,
                   metrics, details, currentBlockNumber, balance, sufficient, active, healthy,
                   step, snap, second, server, scraped>>

\* lines 71-73: on an error the gate sleeps 60 seconds, then returns false.
Sleep60 ==
    /\ pc = "sleep60"
    /\ trace' = Append(trace, Call("Sleep60", "ok"))
    /\ consensus' = "false"
    /\ pc' = "exit"
    /\ UNCHANGED <<ctx, network, node, attempt, successfulChecks, validatorAddress,
                   metrics, details, currentBlockNumber, balance, sufficient, active, healthy,
                   step, snap, second, server, scraped>>

\* A variant of Sleep5 with a slip: the attempt counter runs ahead.
Sleep5SkipsAttempt ==
    /\ pc = "sleep5"
    /\ trace' = Append(trace, Call("Sleep5", "ok"))
    /\ attempt' = attempt + 2
    /\ pc' = "checkConsensus"
    /\ UNCHANGED <<ctx, network, node, successfulChecks, consensus, validatorAddress,
                   metrics, details, currentBlockNumber, balance, sufficient, active, healthy,
                   step, snap, second, server, scraped>>

\* lines 87-89: five seconds between two checks.
Sleep5 ==
    /\ pc = "sleep5"
    /\ trace' = Append(trace, Call("Sleep5", "ok"))
    /\ attempt' = attempt + 1
    /\ pc' = "checkConsensus"
    /\ UNCHANGED <<ctx, network, node, successfulChecks, consensus, validatorAddress,
                   metrics, details, currentBlockNumber, balance, sufficient, active, healthy,
                   step, snap, second, server, scraped>>

----------------------------------------------------------------------------
(* main, lines 412-435: start-up *)

\* updateEpochNumberGauge, lines 100-107: at start-up (line 412) and at the
\* head of every main-loop tick (line 441).
UpdateEpochNumberGauge ==
    /\ pc \in {"startEpoch", "tickEpoch"}
    /\ \E e \in EpochAnswers :
        /\ trace' = Append(trace, Call("GetEpochNumber", OkErr(e # EpochErr)))
        /\ metrics' = IF e = EpochErr THEN metrics
                      ELSE Set(metrics, "NimiqEpochNumberGauge", e)
    /\ pc' = IF pc = "startEpoch" THEN "getAddress" ELSE "checkStatus"
    /\ UNCHANGED <<ctx, network, node, attempt, successfulChecks, consensus,
                   validatorAddress, details, currentBlockNumber, balance, sufficient, active,
                   healthy, step, snap, second, server, scraped>>

\* main, lines 414-419.
GetAddress ==
    /\ pc = "getAddress"
    /\ \E ok \in AddressAnswers :
        /\ trace' = Append(trace, Call("GetAddress", OkErr(ok)))
        /\ validatorAddress' = IF ok THEN OwnAddress ELSE validatorAddress
        /\ pc' = IF ok THEN "initActivated" ELSE "exit"
    /\ UNCHANGED <<ctx, network, node, attempt, successfulChecks, consensus, metrics,
                   details, currentBlockNumber, balance, sufficient, active, healthy, step,
                   snap, second, server, scraped>>

\* A variant of InitActivatedGauge with a slip: the gauge starts at 1.
InitActivatedGaugeOne ==
    /\ pc = "initActivated"
    /\ metrics' = Set(metrics, "ValidatorActivatedGauge", 0 + 1)
    /\ pc' = "initCounter"
    /\ UNCHANGED <<ctx, network, node, attempt, successfulChecks, consensus,
                   validatorAddress, details, currentBlockNumber, balance, sufficient,
                   active, healthy, trace, step, snap, second, server, scraped>>

\* main, line 420.
InitActivatedGauge ==
    /\ pc = "initActivated"
    /\ metrics' = Set(metrics, "ValidatorActivatedGauge", 0)
    /\ pc' = "initCounter"
    /\ UNCHANGED <<ctx, network, node, attempt, successfulChecks, consensus,
                   validatorAddress, details, currentBlockNumber, balance, sufficient, active,
                   healthy, trace, step, snap, second, server, scraped>>

\* main, line 421.
InitActivatedCounter ==
    /\ pc = "initCounter"
    /\ metrics' = Set(metrics, "ValidatorActivatedCounterGauge", 0)
    /\ pc' = "startupQuery"
    /\ UNCHANGED <<ctx, network, node, attempt, successfulChecks, consensus,
                   validatorAddress, details, currentBlockNumber, balance, sufficient, active,
                   healthy, trace, step, snap, second, server, scraped>>

\* main, lines 423-424: the start-up evaluation begins; the record is dropped.
StartupQuery ==
    /\ pc = "startupQuery"
    /\ \E d \in ValidatorAnswers :
        /\ NewEvaluation("startup", <<Call("GetValidatorByAddress", d.kind)>>)
        /\ pc' = IF QueryFailed(d) THEN "startupBalance" ELSE "mainTicker"
    /\ UNCHANGED <<network, node, attempt, successfulChecks, consensus,
                   validatorAddress, metrics, snap, second, server, scraped>>

\* checkSufficientBalance, lines 294-303: at start-up (line 426), in a
\* sub-loop iteration (line 326) and at the end of a main-loop tick (line 446).
CheckSufficientBalance ==
    /\ pc \in {"startupBalance", "subBalance", "tickBalance"}
    /\ \E b \in BalanceAnswers :
        /\ trace' = Append(trace, Call("GetAccountBalanceByAddress", OkErr(b # ErrBalance)))
        /\ balance' = b
        /\ metrics' = IF b = ErrBalance THEN metrics
                      ELSE Set(metrics, "ValidatorBalanceGauge", b)
        /\ sufficient' = SufficientBalance(b)
        /\ pc' = IF pc = "startupBalance" THEN StartupBranch(SufficientBalance(b))
                 ELSE IF pc = "subBalance" THEN "checkActive"
                 ELSE "mainTicker"
    /\ UNCHANGED <<ctx, network, node, attempt, successfulChecks, consensus,
                   validatorAddress, details, currentBlockNumber, active, healthy, step,
                   snap, second, server, scraped>>

----------------------------------------------------------------------------
(* periodicUpdates, lines 321-347: the balance sub-loop *)

\* line 325: the 10-second ticker fires, an iteration begins.
SubTicker ==
    /\ pc = "subTicker"
    /\ BelowMaxCounter
    /\ NewEvaluation("subloop", <<>>)
    /\ pc' = "subBalance"
    /\ UNCHANGED <<network, node, attempt, successfulChecks, consensus,
                   validatorAddress, metrics, snap, second, server, scraped>>

\* checkActive, lines 305-319, and the branch of lines 329-345.  A result
\* without a record makes validatorDetails.Address dereference nil.
CheckActive ==
    /\ pc = "checkActive"
    /\ \E d \in ValidatorAnswers :
        /\ trace' = Append(trace, Call("GetValidatorByAddress", d.kind))
        /\ active' = isActive(d, validatorAddress)
        /\ pc' = IF d.kind = "null" THEN "panic"
                 ELSE SubLoopBranch(sufficient, isActive(d, validatorAddress), network)
    /\ UNCHANGED <<ctx, network, node, attempt, successfulChecks, consensus,
                   validatorAddress, metrics, details, currentBlockNumber, balance,
                   sufficient, healthy, step, snap, second, server, scraped>>

\* fundAddress, lines 139-160; its result is only logged.
FundAddress ==
    /\ pc = "fundAddress"
    /\ \E ok \in FaucetAnswers :
        trace' = Append(trace, Call("fundAddress", OkErr(ok)))
    /\ pc' = "subTicker"
    /\ UNCHANGED <<ctx, network, node, attempt, successfulChecks, consensus,
                   validatorAddress, metrics, details, currentBlockNumber, balance,
                   sufficient, active, healthy, step, snap, second, server, scraped>>

----------------------------------------------------------------------------
(* main, lines 437-447: the main poll loop *)

\* line 440: the 15-second ticker fires, a tick begins.  Against a fixed node
\* state the registry and the calls of the tick that just ended are kept.
MainTicker ==
    /\ pc = "mainTicker"
    /\ BelowMaxCounter
    /\ NewEvaluation("main", <<>>)
    /\ pc' = "tickEpoch"
    /\ IF node.stable /\ ctx = "main"
       THEN snap' = [metrics |-> metrics, trace |-> trace] /\ second' = TRUE
       ELSE UNCHANGED <<snap, second>>
    /\ UNCHANGED <<network, node, attempt, successfulChecks, consensus,
                   validatorAddress, metrics, server, scraped>>

----------------------------------------------------------------------------
(* checkAndHandleValidatorStatus, lines 349-391 *)

\* lines 352-357: the validator query; an error calls activateValidator.
CheckStatusQuery ==
    /\ pc = "checkStatus"
    /\ \E d \in ValidatorAnswers :
        /\ details' = d
        /\ pc' = StatusBranch(d)
        /\ trace' = IF StatusBranch(d) = "activate"
                    THEN trace \o <<Call("GetValidatorByAddress", d.kind),
                                    Call("activateValidator", "call")>>
                    ELSE Append(trace, Call("GetValidatorByAddress", d.kind))
        /\ step' = IF StatusBranch(d) = "activate" THEN 1 ELSE 0
    /\ UNCHANGED <<ctx, network, node, attempt, successfulChecks, consensus,
                   validatorAddress, metrics, currentBlockNumber, balance, sufficient, active,
                   healthy, snap, second, server, scraped>>

\* lines 360-367: publish the record; a retired record calls reActivateValidator.
UpdateValidatorMetrics ==
    /\ pc = "updateMetrics"
    /\ metrics' = updateValidatorMetrics(metrics, details)
    /\ pc' = RetiredBranch(details)
    /\ trace' = IF RetiredBranch(details) = "reactivate"
                THEN Append(trace, Call("reActivateValidator", "call"))
                ELSE trace
    /\ step' = IF RetiredBranch(details) = "reactivate" THEN 1 ELSE 0
    /\ UNCHANGED <<ctx, network, node, attempt, successfulChecks, consensus,
                   validatorAddress, details, currentBlockNumber, balance, sufficient, active,
                   healthy, snap, second, server, scraped>>

\* A variant of GetCurrentBlockNumber with a slip: a failed query is passed
\* over and the record is taken to be in good standing.
GetCurrentBlockNumberPassesOver ==
    /\ pc = "blockNumber"
    /\ \E b \in BlockAnswers :
        /\ trace' = Append(trace, Call("GetCurrentBlockNumber", OkErr(b # BlockErr)))
        /\ IF b = BlockErr
           THEN pc' = "goodStanding" /\ UNCHANGED <<currentBlockNumber, healthy>>
           ELSE /\ currentBlockNumber' = b
                /\ pc' = JailBranch(details, b)
                /\ UNCHANGED healthy
    /\ UNCHANGED <<ctx, network, node, attempt, successfulChecks, consensus,
                   validatorAddress, metrics, details, balance, sufficient, active,
                   step, snap, second, server, scraped>>

\* lines 369-377: the block number; an error returns false.
GetCurrentBlockNumber ==
    /\ pc = "blockNumber"
    /\ \E b \in BlockAnswers :
        /\ trace' = Append(trace, Call("GetCurrentBlockNumber", OkErr(b # BlockErr)))
        /\ IF b = BlockErr
           THEN Return(FALSE) /\ UNCHANGED currentBlockNumber
           ELSE /\ currentBlockNumber' = b
                /\ pc' = JailBranch(details, b)
                /\ UNCHANGED healthy
    /\ UNCHANGED <<ctx, network, node, attempt, successfulChecks, consensus,
                   validatorAddress, metrics, details, balance, sufficient, active, step, snap,
                   second, server, scraped>>

\* lines 378-381: inside the jail window.
StillJailed ==
    /\ pc = "jailedWithin"
    /\ metrics' = Set(Set(metrics, "ValidatorJailedGauge", 1),
                      "ValidatorJailedFromGauge", details.jailedFrom)
    /\ pc' = "goodStanding"
    /\ UNCHANGED <<ctx, network, node, attempt, successfulChecks, consensus,
                   validatorAddress, details, currentBlockNumber, balance, sufficient, active,
                   healthy, trace, step, snap, second, server, scraped>>

\* lines 382-385: the jail window has passed.
JailExpired ==
    /\ pc = "jailedExpired"
    /\ metrics' = Set(metrics, "ValidatorJailedGauge", 0)
    /\ pc' = "goodStanding"
    /\ UNCHANGED <<ctx, network, node, attempt, successfulChecks, consensus,
                   validatorAddress, details, currentBlockNumber, balance, sufficient, active,
                   healthy, trace, step, snap, second, server, scraped>>

\* lines 387-390: reached by every record that is not retired, jailed or not.
GoodStanding ==
    /\ pc = "goodStanding"
    /\ metrics' = Set(Set(metrics, "ValidatorJailedGauge", 0),
                      "ValidatorJailedFromGauge", 0)
    /\ Return(TRUE)
    /\ UNCHANGED <<ctx, network, node, attempt, successfulChecks, consensus,
                   validatorAddress, details, currentBlockNumber, balance, sufficient, active,
                   trace, step, snap, second, server, scraped>>

----------------------------------------------------------------------------
(* activateValidator, lines 162-216, and reActivateValidator, lines 218-258 *)

\* One step of an action: the first failure returns false, and
\* checkAndHandleValidatorStatus returns false after the action either way.
ActionStep(at, steps, done) ==
    /\ \E ok \in StepAnswers(steps[step]) :
        /\ trace' = Append(trace, Call(steps[step], OkErr(ok)))
        /\ IF ~ok
           THEN Return(FALSE) /\ step' = 0
           ELSE IF step < Len(steps)
           THEN pc' = at /\ step' = step + 1 /\ UNCHANGED healthy
           ELSE pc' = done /\ step' = 0 /\ UNCHANGED healthy
    /\ UNCHANGED <<ctx, network, node, attempt, successfulChecks, consensus,
                   validatorAddress, metrics, details, currentBlockNumber, balance,
                   sufficient, active, snap, second, server, scraped>>

ActivateStep ==
    /\ pc = "activate"
    /\ ActionStep("activate", ActivateSteps, "activated")

\* A variant of ActivateSuccess with a slip: the counter is forgotten.
ActivateSuccessGaugeOnly ==
    /\ pc = "activated"
    /\ metrics' = Set(metrics, "ValidatorActivatedGauge", 1)
    /\ Return(FALSE)
    /\ UNCHANGED <<ctx, network, node, attempt, successfulChecks, consensus,
                   validatorAddress, details, currentBlockNumber, balance, sufficient,
                   active, trace, step, snap, second, server, scraped>>

\* lines 211-215, then line 356.
ActivateSuccess ==
    /\ pc = "activated"
    /\ metrics' = Inc(Set(metrics, "ValidatorActivatedGauge", 1),
                      "ValidatorActivatedCounterGauge")
    /\ Return(FALSE)
    /\ UNCHANGED <<ctx, network, node, attempt, successfulChecks, consensus,
                   validatorAddress, details, currentBlockNumber, balance, sufficient, active,
                   trace, step, snap, second, server, scraped>>

ReactivateStep ==
    /\ pc = "reactivate"
    /\ ActionStep("reactivate", ReactivateSteps, "reactivated")

\* lines 254-257, then line 366.
ReactivateSuccess ==
    /\ pc = "reactivated"
    /\ metrics' = Inc(metrics, "ValidatorReActivatedCounterGauge")
    /\ Return(FALSE)
    /\ UNCHANGED <<ctx, network, node, attempt, successfulChecks, consensus,
                   validatorAddress, details, currentBlockNumber, balance, sufficient, active,
                   trace, step, snap, second, server, scraped>>

----------------------------------------------------------------------------
(* main, lines 399-405: the metrics goroutine *)

\* The process runs: main has not returned, nothing has panicked or exited.
Running == pc \notin {"exit", "panic"}

\* A variant of Scrape with a slip: serving the registry resets a gauge.
ScrapeResets ==
    /\ Running
    /\ server = "listening"
    /\ scraped' = metrics.ValidatorJailedGauge
    /\ metrics' = Set(metrics, "ValidatorJailedGauge", 0)
    /\ UNCHANGED <<pc, ctx, network, node, attempt, successfulChecks, consensus,
                   validatorAddress, details, currentBlockNumber, balance,
                   sufficient, active, healthy, trace, step, snap, second, server>>

\* lines 400-404: http.ListenAndServe binds the port and serves, or returns an
\* error, on which log.Fatalf ends the process.  The error modelled is the one
\* the log line names, a failure to start, which comes before the consensus
\* gate has returned.
ListenAndServe ==
    /\ Running
    /\ server = "starting"
    /\ \E ok \in (IF ctx = "boot" THEN BOOLEAN ELSE {TRUE}) :
        IF ok
        THEN server' = "listening" /\ UNCHANGED pc
        ELSE server' = "fatal" /\ pc' = "exit"
    /\ UNCHANGED <<ctx, network, node, attempt, successfulChecks, consensus,
                   validatorAddress, metrics, details, currentBlockNumber, balance,
                   sufficient, active, healthy, trace, step, snap, second, scraped>>

\* line 400: promhttp.Handler answers a GET /metrics with the registry as it
\* is at that moment; the jailed gauge of the response is kept.
Scrape ==
    /\ Running
    /\ server = "listening"
    /\ scraped' = metrics.ValidatorJailedGauge
    /\ UNCHANGED <<pc, ctx, network, node, attempt, successfulChecks, consensus,
                   validatorAddress, metrics, details, currentBlockNumber, balance,
                   sufficient, active, healthy, trace, step, snap, second, server>>

----------------------------------------------------------------------------

Next ==
    \/ CheckConsensus
    \/ Sleep60
    \/ Sleep5
    \/ UpdateEpochNumberGauge
    \/ GetAddress
    \/ InitActivatedGauge
    \/ InitActivatedCounter
    \/ StartupQuery
    \/ CheckSufficientBalance
    \/ SubTicker
    \/ CheckActive
    \/ FundAddress
    \/ MainTicker
    \/ CheckStatusQuery
    \/ UpdateValidatorMetrics
    \/ GetCurrentBlockNumber
    \/ StillJailed
    \/ JailExpired
    \/ GoodStanding
    \/ ActivateStep
    \/ ActivateSuccess
    \/ ReactivateStep
    \/ ReactivateSuccess
    \/ ListenAndServe
    \/ Scrape

Spec == Init /\ [][Next]_vars

----------------------------------------------------------------------------
(* What the properties speak about *)

\* checkAndHandleValidatorStatus has returned in the evaluation under way.
StatusReturned == healthy # "none"

\* The evaluation under way (start-up evaluation, sub-loop iteration or
\* main-loop tick) has run to its end.
EvaluationEnded ==
    /\ ctx \in {"startup", "subloop", "main"}
    /\ pc \in {"subTicker", "mainTicker"}

ActivateInvoked == Called(trace, "activateValidator")
ReactivateInvoked == Called(trace, "reActivateValidator")

\* A balance was fetched in this evaluation and is below 100 000 NIM.
BalanceBelowThreshold == balance \in BalanceValues /\ balance[1] < 100000

RecordSeen == details.kind = "rec"
BlockKnown == currentBlockNumber # Nil

----------------------------------------------------------------------------
(* C1 - C4 *)

\* C1: in an evaluation whose balance is strictly below the activation
\* threshold, Activate is never invoked, whatever the validator query answers.
C1_NoActivateBelowThreshold ==
    BalanceBelowThreshold => ~ActivateInvoked

\* C2: in a lifecycle evaluation whose validator record is retired, with or
\* without a jail marker, Reactivate is attempted exactly once and Activate
\* is not attempted.
C2_RetiredReactivatesOnce ==
    (RecordSeen /\ details.retired) =>
        /\ ~ActivateInvoked
        /\ Count(trace, "reActivateValidator") <= 1
        /\ StatusReturned =>
            /\ Count(trace, "reActivateValidator") = 1
            /\ Count(trace, "getPrivateKey(signing_key)") = 1

C2_Witness ==
    /\ StatusReturned
    /\ RecordSeen /\ details.retired /\ details.jailedFrom # Nil
    /\ Count(trace, "reActivateValidator") = 1

\* C3: a lifecycle evaluation of a non-retired record with a jail marker and
\* currentBlock - jailedFrom < 8000 finishes with the jailed gauge at 1 and
\* the jailed-from gauge at the marker's block, and invokes no action.
C3_JailedInsideWindow ==
    ( /\ StatusReturned
      /\ RecordSeen /\ ~details.retired /\ details.jailedFrom # Nil
      /\ BlockKnown /\ currentBlockNumber - details.jailedFrom < 8000 ) =>
        /\ metrics.ValidatorJailedGauge = 1
        /\ metrics.ValidatorJailedFromGauge = details.jailedFrom
        /\ ~ActivateInvoked /\ ~ReactivateInvoked

\* C4: a lifecycle evaluation of a non-retired record with a jail marker and
\* currentBlock - jailedFrom >= 8000 finishes with the jailed gauge at 0 and
\* without Reactivate; Reactivate is invoked only for a retired record.
C4_ExpiredJailNoReactivate ==
    /\ ( /\ StatusReturned
         /\ RecordSeen /\ ~details.retired /\ details.jailedFrom # Nil
         /\ BlockKnown /\ currentBlockNumber - details.jailedFrom >= 8000 ) =>
            /\ metrics.ValidatorJailedGauge = 0
            /\ ~ReactivateInvoked
    /\ ReactivateInvoked => (RecordSeen /\ details.retired)

C4_Witness ==
    /\ StatusReturned
    /\ RecordSeen /\ ~details.retired /\ details.jailedFrom = 100
    /\ currentBlockNumber = 8100
    /\ metrics.ValidatorJailedGauge = 0

----------------------------------------------------------------------------
(* C5: two main-loop ticks in succession against a fixed node state *)

\* The second of two successive main-loop ticks against a fixed node state has
\* ended; snap holds the registry and the calls at the end of the first.
SecondTickEnded ==
    /\ node.stable /\ second
    /\ ctx = "main" /\ pc = "mainTicker"

Counters == {"ValidatorActivatedCounterGauge", "ValidatorReActivatedCounterGauge"}

Succeeded(t, lastStep) == \E i \in 1..Len(t) : t[i] = Call(lastStep, "ok")

\* C5, as claimed: the second run leaves every published metric, the two
\* counters included, as the first run left it, and invokes neither Activate
\* nor Reactivate.
C5_SecondRunChangesNothing ==
    SecondTickEnded =>
        /\ metrics = snap.metrics
        /\ ~ActivateInvoked /\ ~ReactivateInvoked

\* C5, amended: the second run makes the calls of the first, so it invokes
\* Activate again while the node reports the address unregistered and
\* Reactivate again while the record is retired; every gauge other than the
\* two counters is as the first run left it, and a counter grows by one
\* exactly when its action went through in the second run.
C5_SecondRunRepeatsFirst ==
    SecondTickEnded =>
        /\ trace = snap.trace
        /\ ActivateInvoked <=> QueryFailed(node.validator)
        /\ ReactivateInvoked <=> (node.validator.kind = "rec" /\ node.validator.retired)
        /\ \A g \in (DOMAIN metrics) \ Counters : metrics[g] = snap.metrics[g]
        /\ CounterOf(metrics, "ValidatorActivatedCounterGauge") =
              CounterOf(snap.metrics, "ValidatorActivatedCounterGauge")
              + (IF Succeeded(trace, "SendRawTransaction") THEN 1 ELSE 0)
        /\ CounterOf(metrics, "ValidatorReActivatedCounterGauge") =
              CounterOf(snap.metrics, "ValidatorReActivatedCounterGauge")
              + (IF Succeeded(trace, "SendReactivateValidatorTransaction") THEN 1 ELSE 0)

C5_Witness ==
    /\ SecondTickEnded
    /\ ActivateInvoked
    /\ Succeeded(trace, "SendRawTransaction")
    /\ metrics.ValidatorActivatedCounterGauge = snap.metrics.ValidatorActivatedCounterGauge + 1

----------------------------------------------------------------------------
(* C6, C7: the consensus gate *)

IsConsensusQuery(e) == e.op = "IsConsensusEstablished"
ConsensusQueries == SelectSeq(trace, IsConsensusQuery)
Established(e) == e.res = "true"

\* C6: the gate returns true exactly when three consensus queries in a row
\* report consensus established; an error or a "not established" among the
\* first two makes it return false with fewer than three queries issued.
C6_GateThreeChecks ==
    ctx = "boot" =>
        LET q == ConsensusQueries IN
        /\ Len(q) <= 3
        /\ consensus = "true" <=>
              (Len(q) = 3 /\ \A i \in 1..3 : Established(q[i]))
        /\ \A i \in 1..Len(q) : ~Established(q[i]) =>
              /\ Len(q) = i
              /\ consensus # "true"
              /\ pc \in {"sleep60", "exit"}
        /\ (pc = "exit" /\ consensus = "false" /\ Len(q) # 3) =>
              ~Established(q[Len(q)])
        /\ (consensus = "false") => pc = "exit"

C6_Witness ==
    /\ ctx = "boot"
    /\ consensus = "true"
    /\ Len(ConsensusQueries) = 3

GateCalls == {"IsConsensusEstablished", "Sleep5", "Sleep60"}

\* C7: until the gate has returned true there is no address lookup, balance
\* check, funding request, Activate, Reactivate or metric write; a gate that
\* returns false ends the program; the gate writes no metric.
C7_NothingBeforeGate ==
    /\ consensus # "true" =>
          /\ metrics = InitMetrics
          /\ validatorAddress = ""
          /\ \A i \in 1..Len(trace) : trace[i].op \in GateCalls
    /\ consensus = "false" => (pc = "exit" /\ ~ENABLED Next)
    /\ pc = "startEpoch" => metrics = InitMetrics

C7_Witness ==
    /\ consensus = "false"
    /\ pc = "exit"
    /\ Len(ConsensusQueries) = 2

----------------------------------------------------------------------------
(* C8 - C10 *)

\* C8: a lifecycle evaluation of a record that is not retired and carries no
\* jail marker, with the block number fetched, invokes no action, returns
\* healthy and leaves retired=0, jailed=0, jailedFrom=0, activated=1.
C8_ActiveRecord ==
    ( /\ StatusReturned
      /\ RecordSeen /\ ~details.retired /\ details.jailedFrom = Nil
      /\ BlockKnown ) =>
        /\ healthy = "true"
        /\ ~ActivateInvoked /\ ~ReactivateInvoked
        /\ metrics.ValidatorRetiredGauge = 0
        /\ metrics.ValidatorJailedGauge = 0
        /\ metrics.ValidatorJailedFromGauge = 0
        /\ metrics.ValidatorActivatedGauge = 1

C8_Witness ==
    /\ StatusReturned
    /\ RecordSeen /\ ~details.retired /\ details.jailedFrom = Nil
    /\ BlockKnown
    /\ healthy = "true"

\* The answer of the last validator query of the evaluation under way.
ValidatorQueryAt == {i \in 1..Len(trace) : trace[i].op = "GetValidatorByAddress"}
LastValidatorAnswer ==
    IF ValidatorQueryAt = {} THEN "none"
    ELSE trace[CHOOSE i \in ValidatorQueryAt : \A j \in ValidatorQueryAt : j <= i].res

\* C9: an evaluation in which the node reports the address as not a
\* registered validator and the balance is at or above the threshold has
\* attempted Activate exactly once by the time it ends.
C9_ActivateInSameEvaluation ==
    /\ Count(trace, "activateValidator") <= 1
    /\ ( /\ EvaluationEnded
         /\ LastValidatorAnswer = "err"
         /\ balance \in BalanceValues /\ balance[1] >= 100000 ) =>
            /\ Count(trace, "activateValidator") = 1
            /\ Count(trace, "getPrivateKey(signing_key)") = 1

C9_Witness ==
    /\ EvaluationEnded
    /\ ctx = "startup"
    /\ LastValidatorAnswer = "err"
    /\ balance = Luna(100000, 0)
    /\ Count(trace, "activateValidator") = 1

\* The calls of activateValidator in the evaluation under way.
ActivateOrder ==
    << "getPrivateKey(signing_key)", "getVoteKey(vote_key)", "getPrivateKey(address)",
       "ImportRawKey", "UnlockAccount", "SendNewValidatorTransaction",
       "SendRawTransaction" >>
IsActivateCall(e) == \E i \in 1..Len(ActivateOrder) : e.op = ActivateOrder[i]
ActivateCalls == IF ActivateInvoked THEN SelectSeq(trace, IsActivateCall) ELSE <<>>
NodeCalls == {"ImportRawKey", "UnlockAccount", "SendNewValidatorTransaction",
              "SendRawTransaction"}

\* C10: Activate runs signing key, voting key, account key, import raw key,
\* unlock account, new-validator transaction, raw transaction in this order;
\* the first failing step ends it with false and nothing after it runs (a
\* missing key file or pattern means no node call), and no step runs twice.
C10_ActivateStepOrder ==
    LET a == ActivateCalls IN
    /\ Count(trace, "activateValidator") <= 1
    /\ Len(a) <= Len(ActivateOrder)
    /\ \A i \in 1..Len(a) : a[i].op = ActivateOrder[i]
    /\ \A i \in 1..Len(a) : i < Len(a) => a[i].res = "ok"
    /\ (Len(a) > 0 /\ a[Len(a)].res = "err") =>
          /\ healthy = "false"
          /\ pc \notin {"activate", "activated"}
          /\ Len(a) <= 3 => \A i \in 1..Len(a) : a[i].op \notin NodeCalls
    /\ (ActivateInvoked /\ StatusReturned) =>
          /\ healthy = "false"
          /\ Len(a) > 0
          /\ (a[Len(a)].res = "err" \/ Len(a) = Len(ActivateOrder))

C10_Witness ==
    /\ ActivateInvoked
    /\ StatusReturned
    /\ Len(ActivateCalls) = 2
    /\ ActivateCalls[2] = Call("getVoteKey(vote_key)", "err")

----------------------------------------------------------------------------
(* C11, C12: the gauges written by Activate and Reactivate *)

AllSucceeded(t, order) == \A i \in 1..Len(order) : Succeeded(t, order[i])

\* The registry after a successful activateValidator started from m.
AfterActivate(m) ==
    [m EXCEPT !.ValidatorActivatedGauge = 1,
              !.ValidatorActivatedCounterGauge =
                  CounterOf(m, "ValidatorActivatedCounterGauge") + 1]

\* One step of the program while an Activate invocation has not returned:
\* the registry is written only by the step on which the invocation returns
\* with every one of its steps succeeded.
ActivateStepWrites ==
    (ActivateInvoked /\ ~StatusReturned) =>
        IF StatusReturned' /\ AllSucceeded(trace', ActivateOrder)
        THEN metrics' = AfterActivate(metrics)
        ELSE metrics' = metrics

\* C11: an Activate invocation sets the activated gauge to 1 and raises the
\* activation counter by exactly 1 if and only if all its steps succeeded; an
\* invocation that fails at any step leaves every metric unchanged.
C11_ActivateGauges == [][ActivateStepWrites]_vars

C11_Witness ==
    /\ ActivateInvoked /\ StatusReturned
    /\ AllSucceeded(trace, ActivateOrder)
    /\ metrics.ValidatorActivatedGauge = 1
    /\ metrics.ValidatorActivatedCounterGauge = 2

ReactivateOrder ==
    << "getPrivateKey(signing_key)", "getPrivateKey(address)", "ImportRawKey",
       "UnlockAccount", "SendReactivateValidatorTransaction" >>
IsStepCall(e) == e.op \in StepNames \cup {"getVoteKey(vote_key)"}
ReactivateCalls == IF ReactivateInvoked THEN SelectSeq(trace, IsStepCall) ELSE <<>>

AfterReactivate(m) ==
    [m EXCEPT !.ValidatorReActivatedCounterGauge =
                  CounterOf(m, "ValidatorReActivatedCounterGauge") + 1]

\* One step of the program while a Reactivate invocation has not returned.
ReactivateStepWrites ==
    (ReactivateInvoked /\ ~StatusReturned) =>
        IF StatusReturned' /\ AllSucceeded(trace', ReactivateOrder)
        THEN metrics' = AfterReactivate(metrics)
        ELSE metrics' = metrics

\* Reactivate runs its five steps in order, without the voting secret, and
\* stops at the first failure.
ReactivateStepOrder ==
    LET a == ReactivateCalls IN
    /\ Len(a) <= Len(ReactivateOrder)
    /\ \A i \in 1..Len(a) : a[i].op = ReactivateOrder[i]
    /\ \A i \in 1..Len(a) : i < Len(a) => a[i].res = "ok"
    /\ (Len(a) > 0 /\ a[Len(a)].res = "err") => healthy = "false"
    /\ (ReactivateInvoked /\ StatusReturned) =>
          /\ healthy = "false"
          /\ Len(a) > 0
          /\ (a[Len(a)].res = "err" \/ Len(a) = Len(ReactivateOrder))

\* C12: Reactivate never reads the voting secret; it runs signing key, account
\* key, import raw key, unlock account, reactivation transaction in this
\* order and stops at the first failure; the reactivation counter grows by
\* exactly 1 if and only if all steps succeeded, and a failing invocation
\* leaves every metric unchanged.
C12_ReactivateSteps == []ReactivateStepOrder /\ [][ReactivateStepWrites]_vars

C12_Witness ==
    /\ ReactivateInvoked /\ StatusReturned
    /\ AllSucceeded(trace, ReactivateOrder)
    /\ metrics.ValidatorReActivatedCounterGauge = 2

----------------------------------------------------------------------------
(* C13 - C15: corrective actions *)

FundingRequested == Called(trace, "fundAddress")

\* The corrective actions started in the evaluation under way.
CorrectiveActions ==
    Count(trace, "fundAddress") + Count(trace, "activateValidator")
        + Count(trace, "reActivateValidator")

\* C13: an evaluation (main-loop tick, sub-loop iteration or start-up
\* evaluation) performs at most one corrective action among funding request,
\* Activate and Reactivate, and never the same one twice.
C13_OneActionPerEvaluation == CorrectiveActions <= 1

C13_Witness ==
    /\ EvaluationEnded
    /\ ctx = "subloop"
    /\ sufficient
    /\ ActivateInvoked
    /\ CorrectiveActions = 1

\* A node query that failed: the validator query did not get through, or the
\* balance or block-number query returned an error.
QueryErrors ==
    { Call("GetValidatorByAddress", "fail"),
      Call("GetAccountBalanceByAddress", "err"),
      Call("GetCurrentBlockNumber", "err") }

CorrectiveCalls == {"fundAddress", "activateValidator", "reActivateValidator"}

\* C14: when the validator, balance or block-number query of an evaluation
\* fails, no corrective action follows it in that evaluation: the failure is
\* not taken for "not registered" nor for "balance below the threshold".
C14_NoActionOnQueryError ==
    \A i \in 1..Len(trace) : trace[i] \in QueryErrors =>
        \A j \in i..Len(trace) : trace[j].op \notin CorrectiveCalls

\* C15: a funding request is never issued when the network mode is
\* production, and never from the main poll loop or the start-up evaluation:
\* only a sub-loop iteration on the test network asks the faucet.
C15_FundingOnlyTestnetSubLoop ==
    (pc = "fundAddress" \/ FundingRequested) =>
        /\ network = "testnet"
        /\ ctx = "subloop"

C15_Witness ==
    /\ FundingRequested
    /\ network = "testnet"
    /\ ctx = "subloop"
    /\ pc = "subTicker"

----------------------------------------------------------------------------
(* C16 - C19: the balance sub-loop *)

\* The sub-loop iteration under way has run to its end.
IterationEnded == ctx = "subloop" /\ pc \in {"subTicker", "mainTicker"}

\* checkActive of the iteration under way was told "not a validator".
ObservedUnregistered ==
    /\ ctx = "subloop"
    /\ Len(trace) >= 2
    /\ trace[2] = Call("GetValidatorByAddress", "err")

\* C16: on the test network a sub-loop iteration that observes the address
\* unregistered and the balance below the threshold issues exactly one
\* funding request, and an iteration that observes a sufficient balance or a
\* registered address issues none.
C16_FundingPerIteration ==
    network = "testnet" =>
        /\ (IterationEnded /\ ObservedUnregistered /\ BalanceBelowThreshold) =>
              Count(trace, "fundAddress") = 1
        /\ (ctx = "subloop" /\ (sufficient \/ active)) =>
              (pc # "fundAddress" /\ ~FundingRequested)

C16_Witness ==
    /\ network = "testnet"
    /\ IterationEnded /\ ObservedUnregistered
    /\ balance = Luna(99999, LunaPerNim - 1)
    /\ Count(trace, "fundAddress") = 1

\* C17: the first sub-loop iteration that observes a sufficient balance or a
\* registered address ends with the sub-loop left for the main poll loop; no
\* further iteration follows such an observation.
C17_ExitOnFirstObservation ==
    (IterationEnded /\ (sufficient \/ active)) => pc = "mainTicker"

SubLoopPositions == {"subTicker", "subBalance", "checkActive", "fundAddress"}

\* C18: an iteration that observes the address unregistered and the balance
\* below the threshold ends back at the 10-second ticker, which fires again
\* whatever the number of iterations so far; the sub-loop is left for the
\* main poll loop only by an iteration that observed a sufficient balance or
\* a registered address.
C18_SubLoopNeverGivesUp ==
    /\ (IterationEnded /\ ObservedUnregistered /\ BalanceBelowThreshold) =>
          /\ pc = "subTicker"
          /\ BelowMaxCounter => ENABLED SubTicker
    /\ (ctx = "subloop" /\ Len(trace) >= 2 /\ ~sufficient /\ ~active) =>
          pc \in SubLoopPositions \cup {"panic"}
    /\ (ctx = "subloop" /\ pc = "mainTicker") => (sufficient \/ active)

C18_Witness ==
    /\ IterationEnded /\ ObservedUnregistered
    /\ balance = Luna(40000, 0)
    /\ network = "mainnet"
    /\ pc = "subTicker"
    /\ ENABLED SubTicker

\* The start-up evaluation has sent the worker into periodicUpdates.
SubLoopEntered == ctx = "startup" /\ pc = "subTicker"

\* C19: the sub-loop is entered only at start-up, and only if the node
\* reported the address as not a registered validator and the balance was
\* observed below the threshold; a record returned at start-up or a
\* sufficient balance skips it; the main poll loop never enters it.
C19_SubLoopEntry ==
    /\ SubLoopEntered =>
          /\ trace[1] = Call("GetValidatorByAddress", "err")
          /\ BalanceBelowThreshold
    /\ ctx = "main" => pc \notin SubLoopPositions
    /\ (ctx = "startup" /\ (trace[1].res = "rec" \/ sufficient)) => ~SubLoopEntered

----------------------------------------------------------------------------
(* C20: the main poll loop *)

\* The calls of the main-loop tick under way come in the order of lines
\* 441-446: the epoch query first, then the validator query that opens the
\* lifecycle evaluation, whatever the epoch query answered, and the balance
\* query last, after the evaluation has returned, healthy or not.
TickOrder ==
    ctx = "main" =>
        /\ Count(trace, "GetEpochNumber") <= 1
        /\ Count(trace, "GetValidatorByAddress") <= 1
        /\ Count(trace, "GetAccountBalanceByAddress") <= 1
        /\ pc # "tickEpoch" => (Len(trace) >= 1 /\ trace[1].op = "GetEpochNumber")
        /\ pc \notin {"tickEpoch", "checkStatus"} =>
              (Len(trace) >= 2 /\ trace[2].op = "GetValidatorByAddress")
        /\ pc = "tickBalance" => StatusReturned
        /\ \A i \in 1..Len(trace) : trace[i].op = "GetAccountBalanceByAddress" =>
              (i = Len(trace) /\ StatusReturned /\ pc = "mainTicker")
        /\ pc = "mainTicker" =>
              /\ trace[Len(trace)].op = "GetAccountBalanceByAddress"
              /\ trace[1].res = "ok" =>
                    metrics.NimiqEpochNumberGauge \in EpochResponses \ {EpochErr}
              /\ trace[Len(trace)].res = "ok" => metrics.ValidatorBalanceGauge = balance

\* A tick that has begun runs on until the ticker is waited for again.
TickRunsToEnd == (ctx = "main" /\ pc # "mainTicker") => ENABLED Next

\* C20: every main-loop tick performs, in this order, the epoch republish,
\* one full lifecycle evaluation and the balance republish; no tick skips the
\* evaluation, also when the epoch query fails or the evaluation reports
\* not-healthy.
C20_TickOrder == TickOrder /\ TickRunsToEnd

----------------------------------------------------------------------------
(* C21, C22: the main poll loop and the metrics goroutine *)

\* C21: once the main poll loop has been entered the process keeps running,
\* whatever the node answers (errors, "not a validator", a result without a
\* record, failed submissions) and however Activate and Reactivate end: it
\* neither exits nor panics, and the 15-second ticker fires again.
C21_MainLoopNeverStops ==
    ctx = "main" =>
        /\ Running
        /\ (pc = "mainTicker" /\ BelowMaxCounter) => ENABLED MainTicker

ActionPositions == {"activate", "activated", "reactivate", "reactivated"}

\* A step that begins an evaluation: the calls kept start anew.
EvaluationBegins == Len(trace') < Len(trace)

\* A step of the metrics goroutine.
ServerStep == server' # server \/ scraped' # scraped

\* An evaluation begins only when no Activate or Reactivate sequence is under
\* way: one that was begun has returned.
NoOverlapStep ==
    EvaluationBegins =>
        /\ pc \notin ActionPositions
        /\ step = 0
        /\ (ActivateInvoked \/ ReactivateInvoked) => StatusReturned

\* The metrics goroutine writes no gauge and calls nothing; a gauge changes
\* only on a step of the lifecycle worker.
ServerReadsOnly ==
    /\ ServerStep => (metrics' = metrics /\ trace' = trace)
    /\ metrics' # metrics => (~ServerStep /\ pc' # pc)

\* C22: lifecycle evaluations never overlap: a sequence of Activate or
\* Reactivate begun in one evaluation has completed or failed before the
\* first node query of the next; the lifecycle worker is the only writer of
\* the metrics, and the metrics goroutine never writes a metric nor calls the
\* node.
C22_NoOverlapSingleWriter ==
    /\ [](step # 0 <=> pc \in {"activate", "reactivate"})
    /\ [][NoOverlapStep /\ ServerReadsOnly]_vars

C22_Witness ==
    /\ ctx = "main"
    /\ Len(trace) = 2
    /\ trace[2].op = "GetValidatorByAddress"
    /\ metrics.ValidatorActivatedCounterGauge = 1
    /\ server = "listening"
    /\ scraped = 1

----------------------------------------------------------------------------
(* C23 - C25 *)

AddressKnown == validatorAddress # ""

\* C23: from the moment the validator address is known the inactivity gauge
\* has a published value at the end of every evaluation, also while the
\* address is unregistered: the record's inactivity marker when there is one
\* and 0 when there is none.
C23_InactivityAlwaysPublished ==
    (AddressKnown /\ EvaluationEnded) =>
        /\ metrics.ValidatorInactivityFlagGauge # Unset
        /\ RecordSeen =>
              metrics.ValidatorInactivityFlagGauge =
                  (IF details.inactivityFlag # Nil THEN details.inactivityFlag ELSE 0)

WaitSteps == {"Sleep5", "Sleep60"}

\* C24: a consensus query that returns an error ends the gate at once: no
\* wait step and no query follows it; a wait step comes only between two
\* successive checks, after a check that reported consensus.
C24_GateFailsFast ==
    ctx = "boot" =>
        /\ \A i \in 1..Len(trace) :
              trace[i] = Call("IsConsensusEstablished", "err") =>
                  (i = Len(trace) /\ pc \notin {"sleep5", "sleep60"})
        /\ \A i \in 1..Len(trace) :
              trace[i].op \in WaitSteps =>
                  (i > 1 /\ trace[i - 1] = Call("IsConsensusEstablished", "true"))

\* raw >= t for two amounts written <<whole NIM, remaining Luna>>.
RawAtLeast(b, t) == b[1] > t[1] \/ (b[1] = t[1] /\ b[2] >= t[2])

\* 100 000 whole units times the divisor 100 000, in Luna.
RawThreshold == Luna(ThresholdNim, 0)

\* A step of the worker through checkSufficientBalance.
BalanceCheckStep ==
    /\ pc \in {"startupBalance", "subBalance", "tickBalance"}
    /\ pc' # pc

BalanceCheckEffect ==
    BalanceCheckStep =>
        IF balance' = ErrBalance
        THEN /\ ~sufficient'
             /\ currentBalance(balance') = Luna(0, 0)
             /\ metrics' = metrics
        ELSE /\ sufficient' <=> RawAtLeast(balance', RawThreshold)
             /\ currentBalance(balance') = balance'
             /\ metrics' = [metrics EXCEPT !.ValidatorBalanceGauge = balance']

\* C25: the balance check reports sufficient exactly when the raw balance is
\* at least 100 000 * 100 000 Luna; a successful fetch sets the balance gauge
\* to the raw balance; a failed fetch reports insufficient with balance 0 and
\* leaves the balance gauge, and every other gauge, unchanged.
C25_BalanceCheck == [][BalanceCheckEffect]_vars

C25_Witness ==
    /\ Len(trace) > 0
    /\ trace[Len(trace)] = Call("GetAccountBalanceByAddress", "ok")
    /\ balance = Luna(99999, LunaPerNim - 1)
    /\ ~sufficient
    /\ metrics.ValidatorBalanceGauge = balance

----------------------------------------------------------------------------
(* C26: history independence of a main-loop tick *)

SituationGauges ==
    {"ValidatorRetiredGauge", "ValidatorJailedGauge", "ValidatorJailedFromGauge",
     "ValidatorInactivityFlagGauge", "ValidatorNumStakersGauge",
     "ValidatorActivatedGauge"}

\* The registry of a process that has just passed start-up with a record
\* returned by the start-up query: lines 420-421 have run, nothing else.
FreshMetrics ==
    Set(Set(InitMetrics, "ValidatorActivatedGauge", 0),
        "ValidatorActivatedCounterGauge", 0)

\* The registry at the end of the tick under way in the run for which this
\* tick, with the answers it received, is the first evaluation.
FirstTickMetrics ==
    IF QueryFailed(details)
    THEN (IF AllSucceeded(trace, ActivateOrder)
          THEN AfterActivate(FreshMetrics) ELSE FreshMetrics)
    ELSE LET m == updateValidatorMetrics(FreshMetrics, details) IN
         IF details.retired \/ ~BlockKnown THEN m
         ELSE Set(Set(m, "ValidatorJailedGauge", 0), "ValidatorJailedFromGauge", 0)

MainTickEnded == ctx = "main" /\ pc = "mainTicker"

\* C26: a main-loop tick that receives given node responses invokes the same
\* corrective action and ends with the same retired, jailed, jailed-from,
\* inactivity, staker-count and activated gauges in every run, whatever the
\* earlier evaluations observed: the action and the gauges are those of the
\* run in which the tick is the first evaluation.
C26_HistoryIndependence ==
    MainTickEnded =>
        /\ ActivateInvoked <=> QueryFailed(details)
        /\ ReactivateInvoked <=> (RecordSeen /\ details.retired)
        /\ \A g \in SituationGauges : metrics[g] = FirstTickMetrics[g]

\* The part of C26 that concerns the corrective action.
ActionFromResponses ==
    MainTickEnded =>
        /\ ActivateInvoked <=> QueryFailed(details)
        /\ ReactivateInvoked <=> (RecordSeen /\ details.retired)

\* The run C26 is compared with: the first tick after a start-up that wrote
\* no gauge but those of lines 420-421.
FirstTickReached ==
    /\ MainTickEnded
    /\ QueryFailed(details)
    /\ \A g \in SituationGauges : metrics[g] = FirstTickMetrics[g]
    /\ metrics.ValidatorRetiredGauge = Unset

----------------------------------------------------------------------------
(* C27: a failed block-number query *)

BlockQueryFailed ==
    \E i \in 1..Len(trace) : trace[i] = Call("GetCurrentBlockNumber", "err")

\* After the failed block query of an evaluation: the record was registered
\* and not retired, the evaluation has returned not-healthy without an
\* action, and the record-derived gauges show the record.
AfterBlockQueryFailure ==
    BlockQueryFailed =>
        /\ RecordSeen /\ ~details.retired
        /\ healthy = "false"
        /\ ~ActivateInvoked /\ ~ReactivateInvoked
        /\ metrics.NimiqTotalStakeGauge = details.balance
        /\ metrics.ValidatorNumStakersGauge = details.numStakers
        /\ metrics.ValidatorInactivityFlagGauge =
              (IF details.inactivityFlag # Nil THEN details.inactivityFlag ELSE 0)
        /\ metrics.ValidatorRetiredGauge = 0
        /\ metrics.ValidatorJailedFromGauge =
              (IF details.jailedFrom # Nil THEN details.jailedFrom ELSE 0)
        /\ metrics.ValidatorActivatedGauge = 1

\* From the validator query of an evaluation up to and including its block
\* query no step writes the jailed gauge.
JailedGaugeKept ==
    pc \in {"checkStatus", "updateMetrics", "blockNumber"} =>
        metrics'.ValidatorJailedGauge = metrics.ValidatorJailedGauge

\* C27: if the block-number query fails in an evaluation of a registered,
\* non-retired validator, the evaluation invokes no corrective action, does
\* not write the jailed gauge, which keeps its previous value, and reports
\* not-healthy; the record-derived gauges have been published by then.
C27_BlockQueryFailure == []AfterBlockQueryFailure /\ [][JailedGaugeKept]_vars

C27_Witness ==
    /\ BlockQueryFailed
    /\ ctx = "main"
    /\ details.jailedFrom = 100
    /\ metrics.ValidatorJailedFromGauge = 100
    /\ metrics.ValidatorJailedGauge = 0
    /\ healthy = "false"

----------------------------------------------------------------------------
(* C28: what a scrape shows of a jailed validator *)

\* The evaluation under way observed a non-retired record inside its jail
\* window and has finished.
JailedEvaluationFinished ==
    /\ StatusReturned
    /\ RecordSeen /\ ~details.retired /\ details.jailedFrom # Nil
    /\ BlockKnown
    /\ currentBlockNumber - details.jailedFrom < blocksForReactivation

\* A /metrics request answered once such an evaluation has finished.
ScrapeOfJailed ==
    (JailedEvaluationFinished /\ server = "listening" /\ scraped' # scraped) =>
        scraped' = 1

\* C28: once an evaluation that observed a non-retired validator inside its
\* jail window has finished, a scrape shows the jailed gauge at 1, never 0.
C28_ScrapeShowsJailed == [][ScrapeOfJailed]_vars

----------------------------------------------------------------------------
(* C29: the activated gauge and the two counters *)

\* The process runs, the address is discovered and lines 420-421 have run.
AddressDiscovered ==
    AddressKnown /\ Running /\ pc \notin {"initActivated", "initCounter"}

\* The activated gauge is 0 or 1; while it is 1 the registry holds the trace
\* of what set it: a published record or a counted activation.
ActivatedGaugeRange ==
    AddressDiscovered =>
        /\ metrics.ValidatorActivatedGauge \in {0, 1}
        /\ metrics.ValidatorActivatedGauge = 1 =>
              \/ metrics.NimiqTotalStakeGauge # Unset
              \/ CounterOf(metrics, "ValidatorActivatedCounterGauge") >= 1

\* The gauge goes to 1 only on a step of an evaluation that was given a
\* validator record or whose Activate has completed all its steps; the two
\* counters do not decrease.
ActivatedGaugeStep ==
    /\ (metrics.ValidatorActivatedGauge # 1 /\ metrics'.ValidatorActivatedGauge = 1) =>
          (RecordSeen \/ AllSucceeded(trace, ActivateOrder))
    /\ \A g \in Counters : CounterOf(metrics', g) >= CounterOf(metrics, g)

\* C29: in every state after the validator address is discovered the
\* activated gauge is 0 or 1, and it is 1 only if the node returned a
\* validator record or an Activate invocation completed all of its steps in
\* the current or an earlier evaluation; the activation and reactivation
\* counters never decrease.
C29_ActivatedGauge == []ActivatedGaugeRange /\ [][ActivatedGaugeStep]_vars

C29_Witness ==
    /\ AddressDiscovered
    /\ metrics.ValidatorActivatedGauge = 1
    /\ metrics.NimiqTotalStakeGauge = Unset
    /\ metrics.ValidatorActivatedCounterGauge = 1
    /\ ctx = "main"

====
